---- MODULE Spec2Model ----
(***************************************************************************)
(* Model of deskpi-fan-pwm (src/src/main.rs): the fan curve built from the *)
(* command line, and the speed computed from it for one temperature.       *)
(*                                                                         *)
(* A text is a sequence of one-character strings.  A temperature reading   *)
(* is an integer n standing for the f32 value n / 2^FracBits.  The f32     *)
(* arithmetic of Curve::calculate is modelled bit for bit (24-bit          *)
(* significand, round to nearest even, infinities and NaN).                *)
(***************************************************************************)
EXTENDS Integers, Sequences, FiniteSets, TLC

(***************************************************************************)
(* Bounds of the model.                                                    *)
(***************************************************************************)
MaxArgs == 2        \* number of command-line arguments
FracBits == 1       \* a reading is a multiple of 1 / 2^FracBits degrees
TempLow == 1        \* readings go down to -TempLow degrees
TempHigh == 7       \* readings go up to TempHigh degrees

Den == 2 ^ FracBits

Readings == (0 - TempLow * Den) .. (TempHigh * Den)

U8Max == 255

Digits == {"0", "1", "2", "3", "4", "5", "6", "7", "8", "9"}

DigitVal(c) ==
    CASE c = "0" -> 0 [] c = "1" -> 1 [] c = "2" -> 2 [] c = "3" -> 3
      [] c = "4" -> 4 [] c = "5" -> 5 [] c = "6" -> 6 [] c = "7" -> 7
      [] c = "8" -> 8 [] c = "9" -> 9

(***************************************************************************)
(* The command-line arguments the model draws from: well-formed points     *)
(* (one repeating the 0:0 anchor, two pairs sharing a temperature, one     *)
(* written with a sign and a leading zero) and malformed literals.         *)
(***************************************************************************)
Literals ==
    { <<"0", ":", "0">>,
      <<"0", ":", "1", "0">>,
      <<"2", ":", "5", "0">>,
      <<"+", "2", ":", "0", "5", "0">>,
      <<"4", ":", "9", "0">>,
      <<"4", ":", "2", "0">>,
      <<"6", ":", "1", "0", "8">>,
      <<"5", "0">>,
      <<"2", ":", "5", ":", "0">>,
      <<"x", ":", "1">>,
      <<"2", "5", "6", ":", "1">>,
      <<>>,
      <<"2", ":">>,
      <<"-", "2", ":", "5">> }

ArgLists == UNION { [1..n -> Literals] : n \in 0..MaxArgs }

(***************************************************************************)
(* Point and its FromStr implementation.                                   *)
(***************************************************************************)
Point(temperature, speed) == [temperature |-> temperature, speed |-> speed]

OkU8(n) == [ok |-> TRUE, val |-> n]
ErrU8 == [ok |-> FALSE, val |-> 0]

OkPoint(p) == [ok |-> TRUE, point |-> p]
ErrPoint == [ok |-> FALSE, point |-> Point(0, 0)]

\* ParseDigits with wrapping instead of checked arithmetic
RECURSIVE ParseDigitsWrapping(_, _, _)
ParseDigitsWrapping(s, i, acc) ==
    IF i > Len(s) THEN OkU8(acc)
    ELSE IF s[i] \notin Digits THEN ErrU8
    ELSE ParseDigitsWrapping(s, i + 1, (acc * 10 + DigitVal(s[i])) % (U8Max + 1))

\* the digits of an u8, most significant first, with checked arithmetic
RECURSIVE ParseDigits(_, _, _)
ParseDigits(s, i, acc) ==
    IF i > Len(s) THEN OkU8(acc)
    ELSE IF s[i] \notin Digits THEN ErrU8
    ELSE IF acc * 10 + DigitVal(s[i]) > U8Max THEN ErrU8
    ELSE ParseDigits(s, i + 1, acc * 10 + DigitVal(s[i]))

\* str::parse::<u8>: an optional '+', then at least one digit
ParseU8(s) ==
    IF Len(s) = 0 THEN ErrU8
    ELSE IF s[1] = "+"
         THEN IF Len(s) = 1 THEN ErrU8 ELSE ParseDigits(s, 2, 0)
         ELSE ParseDigits(s, 1, 0)

\* index of the first c of s at or after i, 0 when there is none
RECURSIVE Find(_, _, _)
Find(s, c, i) ==
    IF i > Len(s) THEN 0
    ELSE IF s[i] = c THEN i
    ELSE Find(s, c, i + 1)

\* s.splitn(2, ':')
Splitn2(s) ==
    LET i == Find(s, ":", 1) IN
    IF i = 0 THEN <<s>>
    ELSE <<SubSeq(s, 1, i - 1), SubSeq(s, i + 1, Len(s))>>

from_str(s) ==
    LET parts == Splitn2(s) IN
    IF Len(parts) # 2 THEN ErrPoint
    ELSE LET left == ParseU8(parts[1])
             right == ParseU8(parts[2])
         IN IF ~left.ok THEN ErrPoint
            ELSE IF ~right.ok THEN ErrPoint
            ELSE OkPoint(Point(left.val, right.val))

\* derived Ord of Point: by temperature, then by speed
PointLess(p, q) ==
    \/ p.temperature < q.temperature
    \/ p.temperature = q.temperature /\ p.speed < q.speed

\* insert p into the sorted sequence s, after the elements not greater
RECURSIVE Insert(_, _)
Insert(s, p) ==
    IF s = <<>> THEN <<p>>
    ELSE IF PointLess(p, Head(s)) THEN <<p>> \o s
    ELSE <<Head(s)>> \o Insert(Tail(s), p)

\* Sort with the call to sort left out
SortNone(v) == v

\* Vec::sort: a stable sort by the Ord of Point
RECURSIVE Sort(_)
Sort(v) ==
    IF v = <<>> THEN <<>>
    ELSE Insert(Sort(SubSeq(v, 1, Len(v) - 1)), v[Len(v)])

\* the orders in which a HashSet may hand out its elements
Orders(S) ==
    { v \in [1..Cardinality(S) -> S] : \A p \in S : \E i \in DOMAIN v : v[i] = p }

(***************************************************************************)
(* f32 values.  A finite value is (neg ? -1 : 1) * m * 2^e with m = 0      *)
(* (and e = 0), or 2^23 <= m < 2^24.  The operands main.rs produces are    *)
(* far from the subnormal and the overflow range.                          *)
(***************************************************************************)
MantBits == 24

Fin(neg, m, e) == [k |-> "fin", neg |-> neg, m |-> m, e |-> e]
Inf(neg) == [k |-> "inf", neg |-> neg, m |-> 0, e |-> 0]
NaN == [k |-> "nan", neg |-> FALSE, m |-> 0, e |-> 0]
Zero == Fin(FALSE, 0, 0)

IsZero(x) == x.k = "fin" /\ x.m = 0

\* scale a significand below 2^24 up to the normal form
RECURSIVE Normal(_, _, _)
Normal(neg, m, e) ==
    IF m = 0 THEN Zero
    ELSE IF m < 2 ^ (MantBits - 1) THEN Normal(neg, 2 * m, e - 1)
    ELSE Fin(neg, m, e)

\* the significand without its trailing zero bits, as <<m, e>>
RECURSIVE Reduce(_, _)
Reduce(m, e) ==
    IF m = 0 THEN <<0, 0>>
    ELSE IF m % 2 = 0 THEN Reduce(m \div 2, e + 1)
    ELSE <<m, e>>

\* round to nearest, ties to even: the value is (m + rem / unit) * 2^e with
\* 2^23 <= m < 2^24 and 0 <= rem < unit
RoundEven(neg, m, e, rem, unit) ==
    LET up == 2 * rem > unit \/ (2 * rem = unit /\ m % 2 = 1)
        r == IF up THEN m + 1 ELSE m
    IN IF r = 2 ^ MantBits THEN Fin(neg, 2 ^ (MantBits - 1), e + 1)
       ELSE Fin(neg, r, e)

\* `n as f32` for an u8, and the f32 of a reading n / 2^bits: both exact
F32OfInt(n) == Normal(n < 0, IF n < 0 THEN 0 - n ELSE n, 0)

F32OfReading(n, bits) == Normal(n < 0, IF n < 0 THEN 0 - n ELSE n, 0 - bits)

\* x - y for finite operands with few significant bits (a reading and an
\* u8): the difference is formed exactly, then brought to the normal form
F32Sub(x, y) ==
    IF x.k = "nan" \/ y.k = "nan" THEN NaN
    ELSE IF x.k = "inf" /\ y.k = "inf"
         THEN IF x.neg = y.neg THEN NaN ELSE x
    ELSE IF x.k = "inf" THEN x
    ELSE IF y.k = "inf" THEN Inf(~y.neg)
    ELSE LET rx == Reduce(x.m, x.e)
             ry == Reduce(y.m, y.e)
             e == IF rx[2] < ry[2] THEN rx[2] ELSE ry[2]
             vx == (IF x.neg THEN -1 ELSE 1) * rx[1] * 2 ^ (rx[2] - e)
             vy == (IF y.neg THEN -1 ELSE 1) * ry[1] * 2 ^ (ry[2] - e)
             d == vx - vy
         IN Normal(d < 0, IF d < 0 THEN 0 - d ELSE d, e)

\* the quotient bits of n / d from <<q, r, e>> on, until q has 24 bits
RECURSIVE DivBits(_, _, _, _)
DivBits(q, r, e, d) ==
    IF q >= 2 ^ (MantBits - 1) THEN <<q, r, e>>
    ELSE DivBits(2 * q + (IF 2 * r >= d THEN 1 ELSE 0),
                 IF 2 * r >= d THEN 2 * r - d ELSE 2 * r, e - 1, d)

\* x / y, y the f32 of an u8 and x with few significant bits
F32Div(x, y) ==
    IF x.k = "nan" \/ y.k = "nan" THEN NaN
    ELSE IF x.k = "inf" THEN (IF y.k = "inf" THEN NaN ELSE Inf(x.neg # y.neg))
    ELSE IF y.k = "inf" THEN Zero
    ELSE IF IsZero(y) THEN (IF IsZero(x) THEN NaN ELSE Inf(x.neg # y.neg))
    ELSE IF IsZero(x) THEN Zero
    ELSE LET rx == Reduce(x.m, x.e)
             ry == Reduce(y.m, y.e)
             b == DivBits(rx[1] \div ry[1], rx[1] % ry[1], rx[2] - ry[2], ry[1])
         IN RoundEven(x.neg # y.neg, b[1], b[3], b[2], ry[1])

\* number of bits of n >= 1
RECURSIVE BitLen(_)
BitLen(n) == IF n < 2 THEN 1 ELSE 1 + BitLen(n \div 2)

\* x * y, x the f32 of an u8: the product of the at most 8 bits of x and
\* the 24 bits of y is formed in two 12-bit halves, then rounded
F32Mul(x, y) ==
    IF x.k = "nan" \/ y.k = "nan" THEN NaN
    ELSE IF x.k = "inf" \/ y.k = "inf"
         THEN IF IsZero(x) \/ IsZero(y) THEN NaN ELSE Inf(x.neg # y.neg)
    ELSE IF IsZero(x) \/ IsZero(y) THEN Zero
    ELSE LET rx == Reduce(x.m, x.e)
             half == 2 ^ 12
             lowp == rx[1] * (y.m % half)
             high == rx[1] * (y.m \div half) + lowp \div half
             low == lowp % half
             s == BitLen(high) + 12 - MantBits
             unit == 2 ^ s
         IN RoundEven(x.neg # y.neg,
                      high * 2 ^ (12 - s) + low \div unit,
                      rx[2] + y.e + s, low % unit, unit)

\* x + y for finite operands of the same sign, x.e >= y.e
AddAligned(x, y) ==
    LET g == x.e - y.e IN
    IF g > MantBits + 1 THEN x
    ELSE LET unit == 2 ^ g
             sum == x.m + y.m \div unit
             rem == y.m % unit
         IN IF sum < 2 ^ MantBits
            THEN RoundEven(x.neg, sum, x.e, rem, unit)
            ELSE RoundEven(x.neg, sum \div 2, x.e + 1,
                           (sum % 2) * unit + rem, 2 * unit)

\* x + y; the finite operands of calculate are never of opposite signs
F32Add(x, y) ==
    IF x.k = "nan" \/ y.k = "nan" THEN NaN
    ELSE IF x.k = "inf" /\ y.k = "inf"
         THEN IF x.neg = y.neg THEN x ELSE NaN
    ELSE IF x.k = "inf" THEN x
    ELSE IF y.k = "inf" THEN y
    ELSE IF IsZero(y) THEN x
    ELSE IF IsZero(x) THEN y
    ELSE CASE x.neg = y.neg ->
              IF x.e >= y.e THEN AddAligned(x, y) ELSE AddAligned(y, x)

\* `x as u8`: towards zero, saturating, NaN to 0
F32ToU8(x) ==
    IF x.k = "nan" THEN 0
    ELSE IF x.k = "inf" THEN (IF x.neg THEN 0 ELSE U8Max)
    ELSE IF x.neg \/ x.m = 0 THEN 0
    ELSE IF x.e >= 0 THEN U8Max
    ELSE IF 0 - x.e >= MantBits THEN 0
    ELSE LET n == x.m \div 2 ^ (0 - x.e) IN IF n > U8Max THEN U8Max ELSE n

\* x < y for finite values with few significant bits
F32Less(x, y) ==
    IF x.k = "nan" \/ y.k = "nan" THEN FALSE
    ELSE LET d == F32Sub(x, y) IN d.neg /\ ~IsZero(d)

(***************************************************************************)
(* Curve.                                                                  *)
(***************************************************************************)
Builds == {"debug", "release"}

from_points(points) == points

\* a - b on u8: a panic with overflow checks (debug), modulo 2^8 without
SubU8(a, b, profile) ==
    IF a >= b THEN [ok |-> TRUE, val |-> a - b]
    ELSE IF profile = "debug" THEN [ok |-> FALSE, val |-> 0]
    ELSE [ok |-> TRUE, val |-> a - b + U8Max + 1]

NoBounds == [found |-> FALSE, lower |-> Point(0, 0), upper |-> Point(0, 0)]

\* BoundsFrom without the arm for the last point
RECURSIVE BoundsFromNoLast(_, _, _)
BoundsFromNoLast(c, t, i) ==
    IF i >= Len(c) THEN NoBounds
    ELSE IF /\ F32Less(F32OfInt(c[i].temperature), t)
            /\ F32Less(t, F32OfInt(c[i + 1].temperature))
         THEN [found |-> TRUE, lower |-> c[i], upper |-> c[i + 1]]
    ELSE BoundsFromNoLast(c, t, i + 1)

\* Curve::bounds, the iterator standing before element i; t is an f32
RECURSIVE BoundsFrom(_, _, _)
BoundsFrom(c, t, i) ==
    IF i > Len(c) THEN NoBounds
    ELSE IF i = Len(c) THEN [found |-> TRUE, lower |-> c[i], upper |-> c[i]]
    ELSE IF /\ F32Less(F32OfInt(c[i].temperature), t)
            /\ F32Less(t, F32OfInt(c[i + 1].temperature))
         THEN [found |-> TRUE, lower |-> c[i], upper |-> c[i + 1]]
    ELSE BoundsFrom(c, t, i + 1)

bounds(c, t) == BoundsFrom(c, t, 1)

Outcome(f, speed) == [fault |-> f, pwm |-> speed]

\* Curve::calculate for the f32 t
calculate(c, t, profile) ==
    LET b == bounds(c, t) IN
    IF ~b.found THEN Outcome("panic", 0)
    ELSE LET tempdiff == SubU8(b.upper.temperature, b.lower.temperature, profile)
             speeddiff == SubU8(b.upper.speed, b.lower.speed, profile)
         IN IF ~tempdiff.ok \/ ~speeddiff.ok THEN Outcome("overflow", 0)
            ELSE LET percent == F32Div(F32Sub(t, F32OfInt(b.lower.temperature)),
                                       F32OfInt(tempdiff.val))
                 IN Outcome("none",
                        F32ToU8(F32Add(F32OfInt(b.lower.speed),
                                       F32Mul(F32OfInt(speeddiff.val), percent))))

(***************************************************************************)
(* main.                                                                   *)
(***************************************************************************)
VARIABLES pc, build, args, pointset, points, curve, temperature, pwm, fault

vars == <<pc, build, args, pointset, points, curve, temperature, pwm, fault>>

Init ==
    /\ pc = "start"
    /\ build \in Builds
    /\ args \in ArgLists
    /\ pointset = {}
    /\ points = <<>>
    /\ curve = <<>>
    /\ temperature = 0
    /\ pwm = 0
    /\ fault = "none"

\* CollectPoints without the 0:0 point
CollectPointsNoAnchor ==
    /\ pc = "start"
    /\ IF \E i \in DOMAIN args : ~from_str(args[i]).ok
       THEN /\ pc' = "malformed"
            /\ UNCHANGED pointset
       ELSE /\ pointset' = { from_str(args[i]).point : i \in DOMAIN args }
            /\ pc' = "collected"
    /\ UNCHANGED <<build, args, points, curve, temperature, pwm, fault>>

\* the 0:0 point and the parsed arguments, collected into a HashSet; the
\* first malformed argument ends the program
CollectPoints ==
    /\ pc = "start"
    /\ IF \E i \in DOMAIN args : ~from_str(args[i]).ok
       THEN /\ pc' = "malformed"
            /\ UNCHANGED pointset
       ELSE /\ pointset' = {Point(0, 0)} \cup
                           { from_str(args[i]).point : i \in DOMAIN args }
            /\ pc' = "collected"
    /\ UNCHANGED <<build, args, points, curve, temperature, pwm, fault>>

\* the set is pushed into a vector in the order the set yields, and sorted
SortPoints ==
    /\ pc = "collected"
    /\ \E v \in Orders(pointset) : points' = Sort(v)
    /\ pc' = "sorted"
    /\ UNCHANGED <<build, args, pointset, curve, temperature, pwm, fault>>

\* MakeCurve with the length test off by one
MakeCurveOffByOne ==
    /\ pc = "sorted"
    /\ IF Len(points) < 1
       THEN /\ pc' = "too_few"
            /\ UNCHANGED curve
       ELSE /\ curve' = from_points(points)
            /\ pc' = "curve"
    /\ UNCHANGED <<build, args, pointset, points, temperature, pwm, fault>>

\* fewer than two points end the program, else the curve is made
MakeCurve ==
    /\ pc = "sorted"
    /\ IF Len(points) < 2
       THEN /\ pc' = "too_few"
            /\ UNCHANGED curve
       ELSE /\ curve' = from_points(points)
            /\ pc' = "curve"
    /\ UNCHANGED <<build, args, pointset, points, temperature, pwm, fault>>

\* the sensor is read, or fails
ReadTemperature ==
    /\ pc = "curve"
    /\ \/ /\ \E n \in Readings : temperature' = n
          /\ pc' = "read"
       \/ /\ pc' = "no_sensor"
          /\ UNCHANGED temperature
    /\ UNCHANGED <<build, args, pointset, points, curve, pwm, fault>>

\* the speed is computed and printed, or the computation panics
Calculate ==
    /\ pc = "read"
    /\ LET r == calculate(curve, F32OfReading(temperature, FracBits), build) IN
       /\ fault' = r.fault
       /\ IF r.fault = "none"
          THEN /\ pwm' = r.pwm
               /\ pc' = "done"
          ELSE /\ pc' = "panicked"
               /\ UNCHANGED pwm
    /\ UNCHANGED <<build, args, pointset, points, curve, temperature>>

Next ==
    \/ CollectPoints
    \/ SortPoints
    \/ MakeCurve
    \/ ReadTemperature
    \/ Calculate

Spec == Init /\ [][Next]_vars

TypeOK ==
    /\ pc \in {"start", "malformed", "collected", "sorted", "too_few", "curve",
               "no_sensor", "read", "done", "panicked"}
    /\ build \in Builds
    /\ pwm \in 0..U8Max
    /\ temperature \in Readings
    /\ fault \in {"none", "overflow", "panic"}

(***************************************************************************)
(* Exact arithmetic for the statements below.                              *)
(***************************************************************************)
Anchor == Point(0, 0)

Evaluated == pc \in {"done", "panicked"}

HasCurve == pc \in {"curve", "no_sensor", "read", "done", "panicked"}

\* num / den towards zero, den > 0
Trunc(num, den) ==
    IF num >= 0 THEN num \div den ELSE 0 - ((0 - num) \div den)

\* the reading n lies strictly between the temperatures of c[i] and c[i+1]
Straddles(c, i, n) ==
    /\ c[i].temperature * Den < n
    /\ n < c[i + 1].temperature * Den

\* lower.speed + (t - lower.temperature) / (upper.temperature -
\* lower.temperature) * (upper.speed - lower.speed), towards zero
Blend(lower, upper, n) ==
    LET den == (upper.temperature - lower.temperature) * Den
    IN Trunc(lower.speed * den
             + (n - lower.temperature * Den) * (upper.speed - lower.speed), den)

NonDecreasingSpeeds(c) ==
    \A i \in 1..(Len(c) - 1) : c[i].speed <= c[i + 1].speed

\* the points the arguments denote, when every argument is well formed
Supplied == { from_str(args[i]).point : i \in DOMAIN args }

AllParse == \A i \in DOMAIN args : from_str(args[i]).ok

\* the sorted arrangement of a set of points
Canonical(S) ==
    CHOOSE v \in Orders(S) :
        \A i \in DOMAIN v : \A j \in DOMAIN v : i < j => PointLess(v[i], v[j])

\* value of a sequence of digits
RECURSIVE Value(_)
Value(d) ==
    IF d = <<>> THEN 0
    ELSE 10 * Value(SubSeq(d, 1, Len(d) - 1)) + DigitVal(d[Len(d)])

\* a text that denotes an integer of 0..255
IsField(f) ==
    LET d == IF f # <<>> /\ f[1] = "+" THEN Tail(f) ELSE f IN
    /\ d # <<>>
    /\ \A i \in DOMAIN d : d[i] \in Digits
    /\ Value(d) <= U8Max

FieldValue(f) == Value(IF f[1] = "+" THEN Tail(f) ELSE f)

\* two integer fields of 0..255 around the only ':' of s, at position i
WellFormedAt(s, i) ==
    /\ s[i] = ":"
    /\ \A j \in DOMAIN s : s[j] = ":" => j = i
    /\ IsField(SubSeq(s, 1, i - 1))
    /\ IsField(SubSeq(s, i + 1, Len(s)))

WellFormed(s) == \E i \in DOMAIN s : WellFormedAt(s, i)

(***************************************************************************)
(* The statements.                                                         *)
(***************************************************************************)

\* C1: whenever the reading lies strictly between the temperatures of two
\* adjacent points of the curve, calculate returns the linear blend of the
\* two speeds, truncated towards zero, whatever the sign of the speed
\* difference.
C1_Interpolation ==
    Evaluated =>
        \A i \in 1..(Len(curve) - 1) :
            Straddles(curve, i, temperature) =>
                /\ pc = "done"
                /\ pwm = Blend(curve[i], curve[i + 1], temperature)

\* C2: for a reading at or above the highest temperature of the curve,
\* calculate returns the speed of the highest-temperature point.
C2_HighClamp ==
    (Evaluated /\ temperature >= curve[Len(curve)].temperature * Den) =>
        /\ pc = "done"
        /\ pwm = curve[Len(curve)].speed

\* C3: for a reading at or below the lowest temperature of the curve,
\* calculate returns the speed of the lowest-temperature point.
C3_LowClamp ==
    (Evaluated /\ temperature <= curve[1].temperature * Den) =>
        /\ pc = "done"
        /\ pwm = curve[1].speed

C3_Witness ==
    /\ pc = "done"
    /\ Len(curve) = 3
    /\ temperature < curve[1].temperature * Den
    /\ curve[3].speed > 0

\* C4: for a reading equal to the temperature of a point of the curve,
\* calculate returns the speed of a point of that temperature.
C4_ExactHit ==
    (Evaluated /\ \E i \in DOMAIN curve : temperature = curve[i].temperature * Den) =>
        /\ pc = "done"
        /\ \E i \in DOMAIN curve :
              /\ temperature = curve[i].temperature * Den
              /\ pwm = curve[i].speed

\* C5: calculate returns a speed of 0..255 without a fault for every curve
\* and reading: neither u8 subtraction goes below zero, nothing panics.
C5_Totality ==
    Evaluated =>
        LET b == bounds(curve, F32OfReading(temperature, FracBits)) IN
        /\ pc = "done"
        /\ pwm \in 0..U8Max
        /\ b.found
        /\ b.upper.temperature >= b.lower.temperature
        /\ b.upper.speed >= b.lower.speed

\* C6: on a curve whose speeds do not decrease with temperature, the speed
\* computed for a reading is at least the speed computed for every lower
\* reading.
C6_Monotonic ==
    (Evaluated /\ NonDecreasingSpeeds(curve)) =>
        /\ pc = "done"
        /\ \A n \in Readings :
              n <= temperature =>
                  LET r == calculate(curve, F32OfReading(n, FracBits), build)
                  IN r.fault = "none" /\ r.pwm <= pwm

\* C7 as stated: fewer than two distinct supplied points (none, or a single
\* one such as 10:20) end the program with the too-few-points error.
C7_Original ==
    (AllParse /\ Cardinality(Supplied) < 2 /\ pc \notin {"start", "collected", "sorted"})
        => pc = "too_few"

\* C7 as amended: the program ends with the too-few-points error exactly when
\* the supplied points and the 0:0 anchor together are fewer than two
\* distinct points, that is when no point other than 0:0 is supplied; no
\* curve of fewer than two points is made and no speed is computed then.
C7_Construction ==
    /\ (AllParse /\ pc \notin {"start", "collected", "sorted"}) =>
          (pc = "too_few" <=> Cardinality(Supplied \cup {Anchor}) < 2)
    /\ pc = "too_few" => (curve = <<>> /\ Supplied \subseteq {Anchor})
    /\ HasCurve => Len(curve) >= 2

C7_Witness ==
    /\ pc = "too_few"
    /\ Len(args) = 2

\* C8: the curve is the supplied points and the anchor, without duplicates,
\* in ascending order of temperature then speed, whatever the order and the
\* repetitions of the arguments; so its temperatures never decrease and the
\* outcome depends on the set of points only.
C8_OrderIndependence ==
    /\ pc \notin {"start", "malformed"} => pointset = Supplied \cup {Anchor}
    /\ pc \notin {"start", "malformed", "collected"} =>
          /\ points = Canonical(Supplied \cup {Anchor})
          /\ \A i \in 1..(Len(points) - 1) :
                points[i].temperature <= points[i + 1].temperature
    /\ HasCurve => curve = Canonical(Supplied \cup {Anchor})
    /\ Evaluated =>
          LET r == calculate(Canonical(Supplied \cup {Anchor}),
                             F32OfReading(temperature, FracBits), build)
          IN /\ fault = r.fault
             /\ pc = "done" => pwm = r.pwm

C8_Witness ==
    /\ pc = "done"
    /\ Len(args) = 2
    /\ PointLess(from_str(args[2]).point, from_str(args[1]).point)
    /\ Len(curve) = 3

\* C9: an argument parses exactly when it is two integer fields of 0..255
\* around its only ':', and then to the point of the two values; one
\* malformed argument ends the program before any set or curve is built.
C9_Parsing ==
    /\ \A i \in DOMAIN args :
          /\ from_str(args[i]).ok <=> WellFormed(args[i])
          /\ \A k \in DOMAIN args[i] :
                WellFormedAt(args[i], k) =>
                    from_str(args[i]).point =
                        Point(FieldValue(SubSeq(args[i], 1, k - 1)),
                              FieldValue(SubSeq(args[i], k + 1, Len(args[i]))))
    /\ (\E i \in DOMAIN args : ~WellFormed(args[i])) =>
          /\ pc \in {"start", "malformed"}
          /\ pointset = {}
          /\ curve = <<>>
    /\ pc = "malformed" => \E i \in DOMAIN args : ~WellFormed(args[i])

C9_Witness ==
    /\ pc = "malformed"
    /\ Len(args) = 2
    /\ WellFormed(args[1])
    /\ ~WellFormed(args[2])

\* C10: the curve handed to bounds is never empty, the scan returns the first
\* adjacent pair that straddles the reading, or else the last point paired
\* with itself, and the panic arm is never taken.
C10_BoundsFound ==
    /\ HasCurve => Len(curve) >= 1
    /\ fault # "panic"
    /\ pc \in {"read", "done", "panicked"} =>
          LET b == bounds(curve, F32OfReading(temperature, FracBits))
              hits == { i \in 1..(Len(curve) - 1) : Straddles(curve, i, temperature) }
          IN /\ b.found
             /\ IF hits = {}
                THEN b.lower = curve[Len(curve)] /\ b.upper = curve[Len(curve)]
                ELSE LET i == CHOOSE m \in hits : \A o \in hits : m <= o
                     IN b.lower = curve[i] /\ b.upper = curve[i + 1]

C10_Witness ==
    /\ pc = "done"
    /\ \E i \in 1..(Len(curve) - 1) : Straddles(curve, i, temperature)

====
